---- MODULE Spec2Model ----
(***************************************************************************)
(* A model of server/pdf_parser.py, the headless bank statement parser.    *)
(*                                                                         *)
(* Text is modelled as a sequence of one-character strings, so that the    *)
(* conversions of the source (upper-casing, substring tests, float and     *)
(* date parsing, date formatting) are computed character by character.     *)
(* Amounts are integers in cents: every numeral the source parses has      *)
(* exactly two fraction digits, so float(...) and round(..., 2) are exact  *)
(* on the (small) values of the model; -0.0 and 0.0 are both 0.            *)
(***************************************************************************)
EXTENDS Integers, Sequences, FiniteSets, TLC

VARIABLES
    \* One invocation of main(), and a second one on the same inputs
    argc,         \* len(sys.argv)
    exists,       \* whether the path names a file
    fname,        \* Path(pdf_path).name
    hint,         \* sys.argv[2], or None
    pdf,          \* the document: the contents of the file
    clock,        \* [month, year]: what datetime.now() returns
    ticks,        \* how many times the clock has moved on
    run,          \* 1 or 2: which invocation this is
    pc,           \* where main() is
    detected,     \* what detect_account returned
    account,      \* main's local account
    transactions, \* main's local transactions
    calls,        \* the parser calls of this invocation, in order
    reads,        \* the values datetime.now() returned to this invocation
    out,          \* the JSON objects printed by this invocation
    exit,         \* the exit status, -1 while running
    prev,         \* [out, reads] of the first invocation, for the second
    \* One application of a function to arguments
    uIn,          \* the function applied and its arguments
    uOut,         \* [done, val]: whether it has returned, and what
    \* The loop of parse_td_cc over the lines of a table
    ccTodo,       \* the lines still to come
    ccRaw,        \* raw, the transactions accumulated
    ccStopped     \* whether a stop line has ended the loop

mainVars == <<argc, exists, fname, hint, pdf, clock, ticks, run, pc, detected, account,
              transactions, calls, reads, out, exit, prev>>
unitVars == <<uIn, uOut>>
ccVars   == <<ccTodo, ccRaw, ccStopped>>
vars     == <<mainVars, unitVars, ccVars>>

\* Python's None where a string is expected: a sequence that is no text,
\* since every element of a text is a single character.
None == <<"None">>

----------------------------------------------------------------------------
(* Characters and strings                                                  *)

LowerChars == <<"a","b","c","d","e","f","g","h","i","j","k","l","m",
                "n","o","p","q","r","s","t","u","v","w","x","y","z">>
UpperChars == <<"A","B","C","D","E","F","G","H","I","J","K","L","M",
                "N","O","P","Q","R","S","T","U","V","W","X","Y","Z">>
DigitChars == <<"0","1","2","3","4","5","6","7","8","9">>

IsLower(c) == \E i \in 1..26 : LowerChars[i] = c
IsUpper(c) == \E i \in 1..26 : UpperChars[i] = c
IsAlpha(c) == IsLower(c) \/ IsUpper(c)
IsDigit(c) == \E i \in 1..10 : DigitChars[i] = c
IsSpace(c) == c \in {" ", "\t"}
IsWordCh(c) == IsAlpha(c) \/ IsDigit(c) \/ c = "_"

DigitVal(c) == (CHOOSE i \in 1..10 : DigitChars[i] = c) - 1

ToUpper(c) == IF IsLower(c) THEN UpperChars[CHOOSE i \in 1..26 : LowerChars[i] = c] ELSE c
ToLower(c) == IF IsUpper(c) THEN LowerChars[CHOOSE i \in 1..26 : UpperChars[i] = c] ELSE c

\* str.upper(), str.lower()
Upper(s) == [i \in 1..Len(s) |-> ToUpper(s[i])]
Lower(s) == [i \in 1..Len(s) |-> ToLower(s[i])]

AllDigits(s) == \A i \in 1..Len(s) : IsDigit(s[i])
AllAlpha(s)  == \A i \in 1..Len(s) : IsAlpha(s[i])

\* sub in s
Contains(s, sub) ==
    \E i \in 1..(Len(s) - Len(sub) + 1) : SubSeq(s, i, i + Len(sub) - 1) = sub

StartsWith(s, p) == Len(p) <= Len(s) /\ SubSeq(s, 1, Len(p)) = p
EndsWith(s, p)   == Len(p) <= Len(s) /\ SubSeq(s, Len(s) - Len(p) + 1, Len(s)) = p

\* str.strip()
RECURSIVE LStrip(_)
LStrip(s) == IF s # <<>> /\ IsSpace(Head(s)) THEN LStrip(Tail(s)) ELSE s
RECURSIVE RStrip(_)
RStrip(s) == IF s # <<>> /\ IsSpace(s[Len(s)]) THEN RStrip(SubSeq(s, 1, Len(s) - 1)) ELSE s
Strip(s) == RStrip(LStrip(s))

\* s.replace(c, "") for a single character c
RemoveChar(s, c) == SelectSeq(s, LAMBDA ch : ch # c)

\* s.replace(sub, ""), leftmost non-overlapping occurrences
RECURSIVE RemoveSub(_, _)
RemoveSub(s, sub) ==
    IF s = <<>> THEN <<>>
    ELSE IF StartsWith(s, sub) THEN RemoveSub(SubSeq(s, Len(sub) + 1, Len(s)), sub)
    ELSE <<Head(s)>> \o RemoveSub(Tail(s), sub)

\* int(s) of a non-empty digit string
RECURSIVE ParseInt(_)
ParseInt(s) == IF s = <<>> THEN 0 ELSE 10 * ParseInt(SubSeq(s, 1, Len(s) - 1)) + DigitVal(s[Len(s)])

\* str(n) of a natural number
RECURSIVE FmtInt(_)
FmtInt(n) == IF n < 10 THEN <<DigitChars[n + 1]>> ELSE FmtInt(n \div 10) \o <<DigitChars[(n % 10) + 1]>>

\* f"{n:02d}", and s.zfill(2)
Fmt02(n) == IF n < 10 THEN <<"0">> \o FmtInt(n) ELSE FmtInt(n)
ZFill2(s) == IF Len(s) < 2 THEN <<"0">> \o s ELSE s

\* " ".join(ws)
RECURSIVE Join(_)
Join(ws) == IF ws = <<>> THEN <<>>
            ELSE IF Len(ws) = 1 THEN ws[1]
            ELSE ws[1] \o <<" ">> \o Join(Tail(ws))

\* "".join(ws)
RECURSIVE Concat(_)
Concat(ws) == IF ws = <<>> THEN <<>> ELSE ws[1] \o Concat(Tail(ws))

----------------------------------------------------------------------------
(* datetime.strptime with %b and %d                                        *)

MonthAbbr == << <<"J","A","N">>, <<"F","E","B">>, <<"M","A","R">>, <<"A","P","R">>,
                <<"M","A","Y">>, <<"J","U","N">>, <<"J","U","L">>, <<"A","U","G">>,
                <<"S","E","P">>, <<"O","C","T">>, <<"N","O","V">>, <<"D","E","C">> >>

\* %b: a month abbreviation in any letter case; 0 when it is none
MonthOf(abbr) ==
    IF \E i \in 1..12 : MonthAbbr[i] = Upper(abbr)
    THEN CHOOSE i \in 1..12 : MonthAbbr[i] = Upper(abbr)
    ELSE 0

\* Days of each month in 1900, the year strptime assumes when the format
\* has none; 1900 is not a leap year, so February has 28 days.
DaysIn1900 == <<31, 28, 31, 30, 31, 30, 31, 31, 30, 31, 30, 31>>

\* datetime.strptime(abbr + dd, "%b%d") (and "%b %d" with a space between):
\* <<month, day>>, or <<>> when it raises ValueError.
Strptime_bd(abbr, dd) ==
    LET mo == MonthOf(abbr) IN
    IF mo = 0 \/ Len(dd) \notin {1, 2} \/ ~AllDigits(dd) THEN <<>>
    ELSE LET d == ParseInt(dd) IN
         IF d < 1 \/ d > DaysIn1900[mo] THEN <<>> ELSE <<mo, d>>

\* f"{yr}-{dt.month:02d}-{dt.day:02d}"
IsoDate(yr, mo, d) == FmtInt(yr) \o <<"-">> \o Fmt02(mo) \o <<"-">> \o Fmt02(d)

----------------------------------------------------------------------------
(* Account detection                                                       *)

BMO_CAD == <<"B","M","O"," ","C","A","D"," ","C","r","e","d","i","t"," ","C","a","r","d">>
BMO_US  == <<"B","M","O"," ","U","S"," ","C","r","e","d","i","t"," ","C","a","r","d">>
TD_CC   == <<"T","D"," ","C","A","D"," ","C","r","e","d","i","t"," ","C","a","r","d">>
TD_CHK  == <<"T","D"," ","C","A","D"," ","C","h","e","c","k","i","n","g">>

\* s[i], or "" past either end
At(s, i) == IF i \in 1..Len(s) THEN s[i] ELSE ""

\* The last index of the run of white space, of letters, of digits that
\* starts at i
RECURSIVE WsEnd(_, _)
WsEnd(s, i) == IF IsSpace(At(s, i + 1)) THEN WsEnd(s, i + 1) ELSE i

RECURSIVE AlphaEnd(_, _)
AlphaEnd(s, i) == IF IsAlpha(At(s, i + 1)) THEN AlphaEnd(s, i + 1) ELSE i

RECURSIVE DigitEnd(_, _)
DigitEnd(s, i) == IF IsDigit(At(s, i + 1)) THEN DigitEnd(s, i + 1) ELSE i

\* A pattern is a text matched without regard to letter case (re.I), in
\* which the element "any" stands for the regular expression's "."
AnyCh == "any"
MatchAt(s, i, pat) ==
    /\ i >= 1 /\ i + Len(pat) - 1 <= Len(s)
    /\ \A k \in 1..Len(pat) : pat[k] = AnyCh \/ ToUpper(pat[k]) = ToUpper(s[i + k - 1])

\* re.search(pat, s, re.I)
Search(s, pat) == \E i \in 1..Len(s) : MatchAt(s, i, pat)

\* re.search(a.*b, s, re.I)
SearchThen(s, a, b) ==
    \E i \in 1..Len(s) : \E j \in (i + Len(a))..Len(s) : MatchAt(s, i, a) /\ MatchAt(s, j, b)

\* re.search(r'[a-zA-Z]+\s+\d{1,2},\s+(\d{4})', fn) with its two groups, the
\* _BMO_DATE of the BMO parser: <<group 1, group 2>> of the leftmost match,
\* or <<>>.
BmoDateSearch(fn) ==
    LET \* Where group 2 of a match begins whose letters end at j, white
        \* space at w and day at d, with white space up to v after the
        \* comma; 0 when there is no such match
        Year(j, w, d, v) ==
            IF /\ w > j
               /\ d - w \in {1, 2}
               /\ At(fn, d + 1) = ","
               /\ v > d + 1
               /\ \A k \in 1..4 : IsDigit(At(fn, v + k))
            THEN v + 1 ELSE 0
        FromDay(j, w, d) == Year(j, w, d, WsEnd(fn, d + 1))
        FromWs(j, w)     == FromDay(j, w, DigitEnd(fn, w))
        FromAlpha(j)     == FromWs(j, WsEnd(fn, j))
        YearAt(i)        == IF IsAlpha(fn[i]) THEN FromAlpha(AlphaEnd(fn, i)) ELSE 0
        Groups(i, y)     == << SubSeq(fn, i, AlphaEnd(fn, i)), SubSeq(fn, y, y + 3) >>
        Leftmost(starts) ==
            IF starts = {} THEN <<>>
            ELSE LET i == CHOOSE a \in starts : \A b \in starts : a <= b
                 IN  Groups(i, YearAt(i))
    IN  Leftmost({i \in 1..Len(fn) : YearAt(i) > 0})

\* re.search(r'[_-]\d{4}\.pdf$', fn, re.I), and with "_" alone
PdfSuffix(fn, seps) ==
    LET n == Len(fn) IN
    /\ n >= 9
    /\ MatchAt(fn, n - 3, <<".","p","d","f">>)
    /\ \A k \in 4..7 : IsDigit(fn[n - k])
    /\ fn[n - 8] \in seps

P_MC1785 == <<"M","C","1","7","8","5">>
P_BMO == <<"B","M","O">>
P_CAD == <<"C","A","D">>
P_USD == <<"U","S","D">>
P_US  == <<"U","S">>
P_MC  == <<"M","C">>
P_TD  == <<"T","D">>
P_CC  == <<"C","C">>
P_VISA == <<"V","i","s","a">>
P_CREDIT == <<"C","r","e","d","i","t">>
P_CHK == <<"C","h","k">>
P_CHECK == <<"C","h","e","c","k">>
P_SAVING == <<"S","a","v","i","n","g">>
P_ALLINC == <<"A","l","l",AnyCh,"I","n","c","l","u","s","i","v","e">>

\* ACCOUNT_PATTERNS, in order: the name and its detector
Detector(k, fn) ==
    CASE k = 1 -> /\ \/ Search(fn, P_MC1785)
                     \/ SearchThen(fn, P_BMO, P_CAD) \/ SearchThen(fn, P_CAD, P_BMO)
                  /\ BmoDateSearch(fn) # <<>>
      [] k = 2 -> /\ \/ Search(fn, P_USD)
                     \/ SearchThen(fn, P_US, P_MC) \/ SearchThen(fn, P_BMO, P_USD)
                  /\ BmoDateSearch(fn) # <<>>
      [] k = 3 -> /\ \E t \in {P_CC, P_VISA, P_CREDIT} : SearchThen(fn, P_TD, t)
                  /\ PdfSuffix(fn, {"_", "-"})
      [] OTHER -> /\ \E t \in {P_CHK, P_CHECK, P_ALLINC, P_SAVING} : SearchThen(fn, P_TD, t)
                  /\ PdfSuffix(fn, {"_"})

ACCOUNT_PATTERNS == <<BMO_CAD, BMO_US, TD_CC, TD_CHK>>

\* A faulty KEYWORD_MAP, in which the entry of "td checking" carries the
\* label of the entry above it
KEYWORD_MAP_shifted ==
    << <<<<"b","m","o"," ","c","a","d">>, BMO_CAD>>, <<<<"b","m","o"," ","u","s","d">>, BMO_US>>, <<<<"b","m","o"," ","u","s">>, BMO_US>>,
       <<<<"t","d"," ","c","c">>, TD_CC>>, <<<<"t","d"," ","c","r","e","d","i","t">>, TD_CC>>,
       <<<<"t","d"," ","c","h","e","c","k","i","n","g">>, TD_CC>>, <<<<"t","d"," ","c","h","k">>, TD_CHK>> >>

KEYWORD_MAP == << <<<<"b","m","o"," ","c","a","d">>, BMO_CAD>>,
                  <<<<"b","m","o"," ","u","s","d">>, BMO_US>>,
                  <<<<"b","m","o"," ","u","s">>, BMO_US>>,
                  <<<<"t","d"," ","c","c">>, TD_CC>>,
                  <<<<"t","d"," ","c","r","e","d","i","t">>, TD_CC>>,
                  <<<<"t","d"," ","c","h","e","c","k","i","n","g">>, TD_CHK>>,
                  <<<<"t","d"," ","c","h","k">>, TD_CHK>> >>

\* re.search(r'\bTD\b', s)
WordTD(s) ==
    \E i \in 1..(Len(s) - 1) :
        s[i] = "T" /\ s[i + 1] = "D" /\ ~IsWordCh(At(s, i - 1)) /\ ~IsWordCh(At(s, i + 2))

\* detect_account(filepath, hint); fn is Path(filepath).name. ok is FALSE
\* when the call raises; hint_ is its hint. A hint that contains no keyword reaches the loop
\* "for _, name in ACCOUNT_PATTERNS", which binds name to the detector (a
\* function), so that name.lower() raises AttributeError on its first turn.
detect_account(fn, hint_) ==
    LET fn_upper == Upper(fn)
        ByName ==
            IF Contains(fn_upper, P_BMO)
            THEN [ok |-> TRUE, account |-> IF Contains(fn_upper, P_US) THEN BMO_US ELSE BMO_CAD]
            ELSE IF WordTD(fn_upper)
            THEN [ok |-> TRUE,
                  account |-> IF \/ \E t \in {<<"C","H","K">>, <<"C","H","E","C","K">>, <<"S","A","V","I","N","G">>} : Contains(fn_upper, t)
                                 \/ Search(fn_upper, P_ALLINC)
                              THEN TD_CHK ELSE TD_CC]
            ELSE [ok |-> TRUE, account |-> None]
        ByPattern(dets) ==
            IF dets # {}
            THEN [ok |-> TRUE, account |-> ACCOUNT_PATTERNS[CHOOSE i \in dets : \A j \in dets : i <= j]]
            ELSE ByName
        ByHint(keys) ==
            IF keys # {}
            THEN [ok |-> TRUE, account |-> KEYWORD_MAP[CHOOSE i \in keys : \A j \in keys : i <= j][2]]
            ELSE IF Len(ACCOUNT_PATTERNS) > 0
            THEN [ok |-> FALSE, account |-> None]
            ELSE ByPattern({})
    IN  IF hint_ # None /\ hint_ # <<>>
        THEN ByHint({i \in 1..Len(KEYWORD_MAP) : Contains(Lower(hint_), KEYWORD_MAP[i][1])})
        ELSE ByPattern({i \in 1..Len(ACCOUNT_PATTERNS) : Detector(i, fn)})

----------------------------------------------------------------------------
(* BMO parser: dates and amounts                                           *)

\* re.match(r'^([A-Za-z]{3})\s*(\d{1,2})$', c): <<group 1, group 2>>, or <<>>
BmoDateMatch(c) ==
    IF Len(c) >= 4 /\ AllAlpha(SubSeq(c, 1, 3))
    THEN LET rest == LStrip(SubSeq(c, 4, Len(c))) IN
         IF Len(rest) \in {1, 2} /\ AllDigits(rest)
         THEN <<SubSeq(c, 1, 3), rest>> ELSE <<>>
    ELSE <<>>

_bmo_date(tok, sm, sy) ==
    LET Year(mo) == IF mo = 12 /\ sm = 1 THEN sy - 1
                    ELSE IF mo = 1 /\ sm = 12 THEN sy + 1
                    ELSE sy
        Format(dt) == IF dt = <<>> THEN tok ELSE IsoDate(Year(dt[1]), dt[1], dt[2])
        Parse(m)   == IF m = <<>> THEN tok ELSE Format(Strptime_bd(m[1], ZFill2(m[2])))
    IN  Parse(BmoDateMatch(RemoveChar(Strip(tok), ".")))

\* float(s) of the numerals the source hands it, in cents: an optional
\* minus sign, digits (possibly none), a point and two digits. Anything
\* else is a ValueError (ok is FALSE).
ParseFloat(s) ==
    LET neg == s # <<>> /\ s[1] = "-"
        Numeral(body, n) ==
            IF n >= 3 /\ body[n - 2] = "." /\ AllDigits(SubSeq(body, 1, n - 3))
               /\ AllDigits(SubSeq(body, n - 1, n))
            THEN [ok |-> TRUE,
                  v  |-> (IF neg THEN -1 ELSE 1)
                         * (100 * ParseInt(SubSeq(body, 1, n - 3)) + ParseInt(SubSeq(body, n - 1, n)))]
            ELSE [ok |-> FALSE, v |-> 0]
        Unsigned(body) == Numeral(body, Len(body))
    IN  Unsigned(IF neg THEN Tail(s) ELSE s)

_bmo_amt(s0) ==
    LET Signed(cr, n) == IF ~n.ok THEN n ELSE [ok |-> TRUE, v |-> IF cr THEN n.v ELSE -n.v]
        \* u is s.upper()
        Amount(u) == Signed(Contains(u, <<"C","R">>), ParseFloat(Strip(RemoveSub(u, <<"C","R">>))))
    IN  Amount(Upper(Strip(RemoveChar(RemoveChar(s0, ","), "$"))))

\* The last index of the run of digits and commas that starts at i
IsNumCh(c) == IsDigit(c) \/ c = ","

RECURSIVE RunEnd(_, _)
RunEnd(s, i) == IF i < Len(s) /\ IsNumCh(s[i + 1]) THEN RunEnd(s, i + 1) ELSE i

\* One date token of _BMO_TRANS, [A-Z][a-z]{2}\.??\s?\d{1,2} under re.I,
\* starting at i and followed by white space: the index of its last
\* character, or 0. White space must follow the token, so the digits are
\* the whole run of digits.
BmoTokEnd(s, i) ==
    LET Day(b, e) == IF e - b + 1 <= 2 /\ IsSpace(At(s, e + 1)) THEN e ELSE 0
        Blank(b)  == IF ~IsDigit(At(s, b)) THEN 0 ELSE Day(b, DigitEnd(s, b))
        Point(a)  == Blank(IF IsSpace(At(s, a)) THEN a + 1 ELSE a)
    IN  IF ~(IsAlpha(At(s, i)) /\ IsAlpha(At(s, i + 1)) /\ IsAlpha(At(s, i + 2))) THEN 0
        ELSE Point(IF At(s, i + 3) = "." THEN i + 4 ELSE i + 3)

\* The amount of _BMO_TRANS, -?[\d,]+\.\d{2}(?:\s?CR)?\b under re.I, starting
\* at q: the index of its last character, or 0. The optional CR is taken
\* when a word boundary follows it, else the numeral alone when a word
\* boundary follows that.
BmoAmtEnd(s, q) ==
    LET \* e is the last index of the numeral, c where a CR would begin
        Suffix(e, c) ==
            IF /\ ToUpper(At(s, c)) = "C" /\ ToUpper(At(s, c + 1)) = "R"
               /\ ~IsWordCh(At(s, c + 2))
            THEN c + 1
            ELSE IF ~IsWordCh(At(s, e + 1)) THEN e ELSE 0
        \* j is the last index of the digits and commas
        Fraction(j) ==
            IF ~(At(s, j + 1) = "." /\ IsDigit(At(s, j + 2)) /\ IsDigit(At(s, j + 3))) THEN 0
            ELSE Suffix(j + 3, IF IsSpace(At(s, j + 4)) THEN j + 5 ELSE j + 4)
        Digits(k) == IF ~IsNumCh(At(s, k)) THEN 0 ELSE Fraction(RunEnd(s, k))
    IN  Digits(IF At(s, q) = "-" THEN q + 1 ELSE q)

\* _BMO_TRANS.match(s): <<group 1, group 2, group 3, group 4>>, or <<>>.
\* Group 3 is lazy: it ends at the first white space that an amount follows.
\* When none follows the (greedy) white space after the second date, the
\* engine gives one blank of that white space back and group 3 is empty.
BmoTransMatch(s) ==
    LET \* The first date ends at e1, the second runs from s2 to e2, and
        \* white space follows it up to b2; ps are the blanks an amount
        \* follows
        Groups(e1, s2, e2, b2, ps) ==
            IF ps # {}
            THEN LET p == CHOOSE a \in ps : \A b \in ps : a <= b
                 IN  << SubSeq(s, 1, e1), SubSeq(s, s2, e2), SubSeq(s, b2 + 1, p - 1),
                        SubSeq(s, WsEnd(s, p) + 1, BmoAmtEnd(s, WsEnd(s, p) + 1)) >>
            ELSE IF b2 > e2 + 1 /\ BmoAmtEnd(s, b2 + 1) > 0
            THEN << SubSeq(s, 1, e1), SubSeq(s, s2, e2),
                    <<>>, SubSeq(s, b2 + 1, BmoAmtEnd(s, b2 + 1)) >>
            ELSE <<>>
        Description(e1, s2, e2, b2) ==
            Groups(e1, s2, e2, b2, {p \in (b2 + 1)..Len(s) :
                                      IsSpace(s[p]) /\ BmoAmtEnd(s, WsEnd(s, p) + 1) > 0})
        Second(e1, s2, e2) == IF e2 = 0 THEN <<>> ELSE Description(e1, s2, e2, WsEnd(s, e2 + 1))
        Gap(e1, s2)        == Second(e1, s2, BmoTokEnd(s, s2))
        First(e1)          == IF e1 = 0 THEN <<>> ELSE Gap(e1, WsEnd(s, e1 + 1) + 1)
    IN  First(BmoTokEnd(s, 1))

\* A faulty _bmo_my, which takes the month and year of the clock whatever
\* the file name says
_bmo_my_clock(fn, now) == <<now.month, now.year>>

\* <<month, year>> of the statement; now is what datetime.now() returns
_bmo_my(fn, now) ==
    LET Month(mo) == IF mo = 0 THEN 1 ELSE mo
        Statement(m) ==
            IF m = <<>> THEN <<now.month, now.year>>
            ELSE << Month(IF Len(m[1]) >= 3 THEN MonthOf(SubSeq(m[1], 1, 3)) ELSE 0),
                    ParseInt(m[2]) >>
    IN  Statement(BmoDateSearch(fn))

\* A document is [pages, textRaises, wordsRaises]: pages is the sequence of
\* its pages, each [text |-> the lines of page.extract_text(), words |-> the
\* words of page.extract_words(...)], a word being [text, x0, top, upright];
\* textRaises and wordsRaises say whether the extraction of text, of words,
\* raises an exception on this document.

\* "legacy" or "modern". Blanks are removed from the text but line ends are
\* not, so the marker is looked for in each line. A document without a page
\* (IndexError) and a failing extraction are both caught.
REFERENCENO == <<"R","E","F","E","R","E","N","C","E","N","O">>

_bmo_fmt(doc) ==
    IF doc.textRaises \/ doc.pages = <<>> THEN "modern"
    ELSE IF \E i \in 1..Len(doc.pages[1].text) :
                Contains(RemoveChar(Upper(doc.pages[1].text[i]), " "), REFERENCENO)
         THEN "legacy" ELSE "modern"

\* re.fullmatch(r'\d{8,}', t) or re.fullmatch(r'\d{2,}-[\d-]{4,}', t)
_bmo_isref(t0) ==
    LET \* d is the last index of the digits t begins with
        Dashed(t, d) ==
            /\ d >= 2
            /\ At(t, d + 1) = "-"
            /\ Len(t) - (d + 1) >= 4
            /\ \A k \in (d + 2)..Len(t) : IsDigit(t[k]) \/ t[k] = "-"
        IsRef(t) ==
            \/ (Len(t) >= 8 /\ AllDigits(t))
            \/ Dashed(t, IF t # <<>> /\ IsDigit(t[1]) THEN DigitEnd(t, 1) ELSE 0)
    IN  IsRef(Strip(t0))

\* re.sub(r'\s+', ' ', d).strip()
RECURSIVE Squeeze(_)
Squeeze(s) ==
    IF s = <<>> THEN <<>>
    ELSE IF IsSpace(s[1]) THEN <<" ">> \o Squeeze(LStrip(s))
    ELSE <<s[1]>> \o Squeeze(Tail(s))
NormSpace(s) == Strip(Squeeze(s))

\* The three substitutions of _bmo_human put a blank between a lower-case
\* and an upper-case letter, then between a letter and a digit, then
\* between a digit and a letter; a match never starts with the character
\* that ended the previous one, so each pass splits every such boundary.
Boundary(pass, a, b) ==
    CASE pass = 1 -> IsLower(a) /\ IsUpper(b)
      [] pass = 2 -> IsAlpha(a) /\ IsDigit(b)
      [] OTHER    -> IsDigit(a) /\ IsAlpha(b)

RECURSIVE SplitAt(_, _)
SplitAt(s, pass) ==
    IF Len(s) < 2 THEN s
    ELSE IF Boundary(pass, s[1], s[2]) THEN <<s[1], " ">> \o SplitAt(Tail(s), pass)
    ELSE <<s[1]>> \o SplitAt(Tail(s), pass)

_bmo_human(d) == NormSpace(SplitAt(SplitAt(SplitAt(d, 1), 2), 3))

\* str.split(): the words of s
RECURSIVE Words(_)
Words(s0) ==
    LET s == LStrip(s0) IN
    IF s = <<>> THEN <<>>
    ELSE LET ends == {i \in 1..Len(s) : ~IsSpace(s[i]) /\ (i = Len(s) \/ IsSpace(s[i + 1]))}
             e    == CHOOSE a \in ends : \A b \in ends : a <= b
         IN  <<SubSeq(s, 1, e)>> \o Words(SubSeq(s, e + 1, Len(s)))

\* The rows one text line adds in parse_bmo: none or one
BmoLineRows(line, fmt, sm, sy) ==
    LET Legacy(d0, parts) ==
            _bmo_human(IF parts # <<>> /\ _bmo_isref(parts[Len(parts)])
                       THEN Strip(Join(SubSeq(parts, 1, Len(parts) - 1)))
                       ELSE d0)
        Desc(d0) == IF fmt = "legacy" THEN Legacy(d0, Words(d0)) ELSE d0
        Row(m) ==
            IF m = <<>> THEN <<>>
            ELSE << [Date |-> _bmo_date(m[1], sm, sy), Description |-> Desc(Strip(m[3])),
                     Amount |-> _bmo_amt(m[4]).v] >>
    IN  Row(BmoTransMatch(Strip(line)))

RECURSIVE BmoLines(_, _, _, _)
BmoLines(lines, fmt, sm, sy) ==
    IF lines = <<>> THEN <<>>
    ELSE BmoLineRows(lines[1], fmt, sm, sy) \o BmoLines(Tail(lines), fmt, sm, sy)

RECURSIVE BmoPages(_, _, _, _)
BmoPages(pages, fmt, sm, sy) ==
    IF pages = <<>> THEN <<>>
    ELSE BmoLines(pages[1].text, fmt, sm, sy) \o BmoPages(Tail(pages), fmt, sm, sy)

\* parse_bmo(p): fn is the file name of p, doc its contents. ok is FALSE
\* when the call raises: the text extraction fails, or float() does.
parse_bmo(fn, doc, now) ==
    LET Rows(my, fmt) == BmoPages(doc.pages, fmt, my[1], my[2])
    IN  IF doc.textRaises /\ doc.pages # <<>> THEN [ok |-> FALSE, rows |-> <<>>]
        ELSE [ok |-> TRUE, rows |-> Rows(_bmo_my(fn, now), _bmo_fmt(doc))]

----------------------------------------------------------------------------
(* TD parser: dates and amounts                                            *)

_td_date(raw, sm, sy) ==
    LET Year(mo) == IF mo = 12 /\ sm = 1 THEN sy - 1
                    ELSE IF mo = 1 /\ sm = 12 THEN sy + 1
                    ELSE sy
        Format(dt) == IF dt = <<>> THEN raw ELSE IsoDate(Year(dt[1]), dt[1], dt[2])
    IN  Format(IF Len(raw) >= 4
               THEN Strptime_bd(SubSeq(raw, 1, 3), SubSeq(raw, 4, Len(raw)))
               ELSE <<>>)

\* re.search(r'([\d,]+\.\d{2})', s): the leftmost run of digits and commas
\* that a point and two digits follow; float of it without its commas, or
\* 0.0 when there is none.
_td_amt(s) ==
    LET \* a run of digits and commas from i to j that a point and two
        \* digits follow
        Ok(i, j) == /\ j + 3 <= Len(s)
                    /\ s[j + 1] = "."
                    /\ IsDigit(s[j + 2]) /\ IsDigit(s[j + 3])
        Value(i, j) == ParseFloat(RemoveChar(SubSeq(s, i, j + 3), ",")).v
        Leftmost(starts) ==
            IF starts = {} THEN 0
            ELSE LET i == CHOOSE a \in starts : \A b \in starts : a <= b
                 IN  Value(i, RunEnd(s, i))
    IN  Leftmost({i \in 1..Len(s) : IsNumCh(s[i]) /\ Ok(i, RunEnd(s, i))})

Abs(n) == IF n < 0 THEN -n ELSE n

\* _td_up(page, xt): the upright words of the page. x_tolerance is a
\* parameter of the external word extraction; a page of the model carries
\* its words as extracted.
_td_up(page, xt) == SelectSeq(page.words, LAMBDA w : w.upright)

\* sorted(words, key=lambda w: (w['top'], w['x0'])), a stable sort
WordLe(a, b) == a.top < b.top \/ (a.top = b.top /\ a.x0 <= b.x0)

RECURSIVE InsertWord(_, _)
InsertWord(sorted, w) ==
    IF sorted = <<>> THEN <<w>>
    ELSE IF WordLe(sorted[Len(sorted)], w) THEN Append(sorted, w)
    ELSE Append(InsertWord(SubSeq(sorted, 1, Len(sorted) - 1), w), sorted[Len(sorted)])

RECURSIVE SortWords(_)
SortWords(ws) ==
    IF ws = <<>> THEN <<>>
    ELSE InsertWord(SortWords(SubSeq(ws, 1, Len(ws) - 1)), ws[Len(ws)])

\* The loop of _td_lines over the sorted words: lines are the closed lines,
\* cur the line being built, ct the top of its first word
RECURSIVE TdGroup(_, _, _, _, _)
TdGroup(ws, lines, cur, ct, yt) ==
    IF ws = <<>> THEN (IF cur # <<>> THEN Append(lines, cur) ELSE lines)
    ELSE LET w == ws[1] IN
         IF cur = <<>> \/ Abs(w.top - ct) <= yt
         THEN TdGroup(Tail(ws), lines, Append(cur, w), IF cur = <<>> THEN w.top ELSE ct, yt)
         ELSE TdGroup(Tail(ws), Append(lines, cur), <<w>>, w.top, yt)

_td_lines(words, yt) == TdGroup(SortWords(words), <<>>, <<>>, 0, yt)

PDF == <<".","P","D","F">>

\* The one match either pattern of _td_my can have in fn, both anchored at
\* the end: <<group 1, group 2>>, or <<>>. dash says whether the separator
\* before the year must be "-" (the second pattern) or may be "_" too.
TdMySearch(fn, dash) ==
    LET \* y is the first digit of the year, u the "_" before the day
        Groups(n, y, u) ==
            IF /\ n >= 8 /\ Upper(SubSeq(fn, n - 3, n)) = PDF
               /\ \A k \in 0..3 : IsDigit(At(fn, y + k))
               /\ (At(fn, y - 1) = "-" \/ (~dash /\ At(fn, y - 1) = "_"))
               /\ IsDigit(At(fn, y - 2))
               /\ At(fn, u) = "_"
               /\ (u = y - 3 \/ IsDigit(At(fn, y - 3)))
               /\ \A k \in 1..3 : IsAlpha(At(fn, u - k))
               /\ (At(fn, u - 4) = "_" \/ (~dash /\ At(fn, u - 4) = "-"))
            THEN << SubSeq(fn, u - 3, u - 1), SubSeq(fn, y, y + 3) >>
            ELSE <<>>
        Day(n, y) == Groups(n, y, IF At(fn, y - 3) = "_" THEN y - 3 ELSE y - 4)
    IN  Day(Len(fn), Len(fn) - 7)

\* <<month, year>> of the statement; now is what datetime.now() returns
_td_my(fn, now) ==
    LET Hit(m) == m # <<>> /\ MonthOf(m[1]) # 0
        Val(m) == << MonthOf(m[1]), ParseInt(m[2]) >>
        Statement(m1, m2) ==
            IF Hit(m1) THEN Val(m1)
            ELSE IF Hit(m2) THEN Val(m2)
            ELSE << now.month, now.year >>
    IN  Statement(TdMySearch(fn, FALSE), TdMySearch(fn, TRUE))

\* re.search(r'(JAN|...|DEC)\s*(\d{1,2})', ds): <<group 1, group 2>> of the
\* leftmost match, or <<>>
MonthDaySearch(ds) ==
    LET \* d is where the digits begin
        Day(d)    == IF IsDigit(At(ds, d + 1)) THEN SubSeq(ds, d, d + 1) ELSE SubSeq(ds, d, d)
        Groups(i) == << SubSeq(ds, i, i + 2), Day(WsEnd(ds, i + 2) + 1) >>
        Leftmost(starts) ==
            IF starts = {} THEN <<>>
            ELSE Groups(CHOOSE a \in starts : \A b \in starts : a <= b)
    IN  Leftmost({i \in 1..(Len(ds) - 2) :
                    /\ \E k \in 1..12 : SubSeq(ds, i, i + 2) = MonthAbbr[k]
                    /\ IsDigit(At(ds, WsEnd(ds, i + 2) + 1))})

Texts(ws) == [i \in 1..Len(ws) |-> ws[i].text]

\* 'credit_card' or 'checking', from the words of page one; ok is FALSE when
\* the call raises (no page one, or the word extraction fails)
TRANSACTION == <<"T","R","A","N","S","A","C","T","I","O","N">>
POSTING     == <<"P","O","S","T","I","N","G">>

_td_type(doc) ==
    IF doc.wordsRaises \/ doc.pages = <<>> THEN [ok |-> FALSE, st |-> "checking"]
    ELSE LET ws == _td_up(doc.pages[1], 2) IN
         [ok |-> TRUE,
          st |-> IF /\ \E i \in 1..Len(ws) : Contains(Upper(ws[i].text), TRANSACTION)
                    /\ \E i \in 1..Len(ws) : Contains(Upper(ws[i].text), POSTING)
                 THEN "credit_card" ELSE "checking"]

HT  == 5
GAP == 5
DepToDate == 80     \* cols.get('date', cols['dep'] + 80)
DateToBal == 65     \* cols.get('bal', xdpe + 65)
ChkYt == 4          \* the default yt of _td_lines
CcHdr == 5          \* the header tolerance and the yt of parse_td_cc
CcXds == 140        \* max(..., default=140.0)

W_DESC == <<"d","e","s","c">>
W_WITH == <<"w","i","t","h">>
W_DEP  == <<"d","e","p">>
W_DATE == <<"d","a","t","e">>
W_BAL  == <<"b","a","l">>
WITHDRAWAL == <<"w","i","t","h","d","r","a","w","a","l">>

\* The column a header word names: t = w['text'].lower().strip().rstrip(':')
RECURSIVE RStripColon(_)
RStripColon(s) == IF s # <<>> /\ s[Len(s)] = ":" THEN RStripColon(SubSeq(s, 1, Len(s) - 1)) ELSE s

ColKey(text) ==
    LET Key(t) == IF StartsWith(t, W_DESC) THEN "desc"
                  ELSE IF StartsWith(t, W_WITH) THEN "with"
                  ELSE IF StartsWith(t, W_DEP) THEN "dep"
                  ELSE IF StartsWith(t, W_DATE) THEN "date"
                  ELSE IF StartsWith(t, W_BAL) THEN "bal"
                  ELSE "none"
    IN  Key(RStripColon(Strip(Lower(text))))

\* cols: for each column named on the header row, the x0 of the last word
\* naming it (a later word overwrites an earlier one)
ChkCols(words, hy) ==
    LET \* key[i] is the column word i names when it is on the header row
        Cols(key) ==
            [k \in {key[i] : i \in 1..Len(words)} \ {"none"} |->
                words[CHOOSE i \in 1..Len(words) :
                        key[i] = k /\ \A j \in 1..Len(words) : key[j] = k => j <= i].x0]
    IN  Cols([i \in 1..Len(words) |->
                IF Abs(words[i].top - hy) <= HT THEN ColKey(words[i].text) ELSE "none"])

ChkSkip == { <<"B","A","L","A","N","C","E"," ","F","O","R","W","A","R","D">>,
             <<"O","P","E","N","I","N","G"," ","B","A","L","A","N","C","E">>,
             <<"C","L","O","S","I","N","G"," ","B","A","L","A","N","C","E">>,
             <<"T","O","T","A","L">>,
             <<"D","A","I","L","Y"," ","C","L","O","S","I","N","G">> }

\* A faulty ChkAmount, which does not negate a withdrawal
ChkAmount_unsigned(ws, dp) ==
    IF ws # <<>> THEN [ok |-> TRUE, v |-> _td_amt(ws)]
    ELSE IF dp # <<>> THEN [ok |-> TRUE, v |-> _td_amt(dp)]
    ELSE [ok |-> FALSE, v |-> 0]

\* amt = -_td_amt(ws) if ws else (_td_amt(dp) if dp else None); ok is FALSE
\* for None
ChkAmount(ws, dp) ==
    IF ws # <<>> THEN [ok |-> TRUE, v |-> -_td_amt(ws)]
    ELSE IF dp # <<>> THEN [ok |-> TRUE, v |-> _td_amt(dp)]
    ELSE [ok |-> FALSE, v |-> 0]

\* The rows one line of words adds in parse_td_chk: none or one
ChkLineRows(line, xde, xwe, xdpe, xdte, sm, sy) ==
    LET r_desc == Texts(SelectSeq(line, LAMBDA w : w.x0 < xde))
        r_with == Texts(SelectSeq(line, LAMBDA w : w.x0 >= xde /\ w.x0 < xwe))
        r_dep  == Texts(SelectSeq(line, LAMBDA w : w.x0 >= xde /\ w.x0 >= xwe /\ w.x0 < xdpe))
        r_date == Texts(SelectSeq(line, LAMBDA w : w.x0 >= xde /\ w.x0 >= xwe /\ w.x0 >= xdpe
                                                   /\ w.x0 < xdte))
        Row(desc, dm, amt) ==
            IF ~amt.ok \/ amt.v = 0 THEN <<>>
            ELSE << [Date |-> _td_date(dm[1] \o ZFill2(dm[2]), sm, sy),
                     Description |-> NormSpace(desc),
                     Amount |-> amt.v] >>
        Date(desc, dm) ==
            IF dm = <<>> THEN <<>>
            ELSE Row(desc, dm, ChkAmount(Strip(Concat(r_with)), Strip(Concat(r_dep))))
        Line(desc) ==
            IF desc = <<>> \/ \E k \in ChkSkip : Contains(Upper(desc), k) THEN <<>>
            ELSE Date(desc, MonthDaySearch(Upper(Concat(r_date))))
    IN  Line(Strip(Join(r_desc)))

RECURSIVE ChkLines(_, _, _, _, _, _, _)
ChkLines(lines, xde, xwe, xdpe, xdte, sm, sy) ==
    IF lines = <<>> THEN <<>>
    ELSE ChkLineRows(lines[1], xde, xwe, xdpe, xdte, sm, sy)
         \o ChkLines(Tail(lines), xde, xwe, xdpe, xdte, sm, sy)

\* The rows one page adds in parse_td_chk
ChkPage(page, sm, sy) ==
    LET Lines(words, hy, xde, xwe, xdpe, xdte) ==
            ChkLines(_td_lines(SelectSeq(words, LAMBDA w : w.top > hy + HT), ChkYt),
                     xde, xwe, xdpe, xdte, sm, sy)
        Bounds(words, hy, cols, xdpe) ==
            Lines(words, hy, cols["with"] - GAP, cols["dep"] - GAP, xdpe,
                  (IF "bal" \in DOMAIN cols THEN cols["bal"] ELSE xdpe + DateToBal) - GAP)
        Columns(words, hy, cols) ==
            IF "with" \notin DOMAIN cols \/ "dep" \notin DOMAIN cols THEN <<>>
            ELSE Bounds(words, hy, cols,
                        (IF "date" \in DOMAIN cols THEN cols["date"]
                         ELSE cols["dep"] + DepToDate) - GAP)
        Header(words, hy) == Columns(words, hy, ChkCols(words, hy))
        Page(words, hs) ==
            IF words = <<>> \/ hs = {} THEN <<>>
            ELSE Header(words, words[CHOOSE i \in hs : \A j \in hs : i <= j].top)
        Words_(words) ==
            Page(words, {i \in 1..Len(words) : StartsWith(Lower(words[i].text), WITHDRAWAL)})
    IN  Words_(_td_up(page, 2))

RECURSIVE ChkPages(_, _, _)
ChkPages(pages, sm, sy) ==
    IF pages = <<>> THEN <<>> ELSE ChkPage(pages[1], sm, sy) \o ChkPages(Tail(pages), sm, sy)

\* parse_td_chk(p, sm, sy); ok is FALSE when the word extraction raises
parse_td_chk(doc, sm, sy) ==
    IF doc.wordsRaises /\ doc.pages # <<>> THEN [ok |-> FALSE, rows |-> <<>>]
    ELSE [ok |-> TRUE, rows |-> ChkPages(doc.pages, sm, sy)]

AMOUNT      == <<"A","M","O","U","N","T">>
ACTIVITY    == <<"A","C","T","I","V","I","T","Y">>
DESCRIPTION == <<"D","E","S","C","R","I","P","T","I","O","N">>
CONTINUED   == <<"C","O","N","T","I","N","U","E","D">>
TOTAL       == <<"T","O","T","A","L">>
TD          == <<"T","D">>

CcStop == { <<"T","O","T","A","L"," ","N","E","W">>,
            <<"T","D"," ","M","E","S","S","A","G","E">> }
CcSkip == { <<"P","R","E","V","I","O","U","S"," ","S","T","A","T","E","M","E","N","T">>,
            <<"S","T","A","R","T","I","N","G"," ","B","A","L","A","N","C","E">>,
            <<"N","E","T"," ","A","M","O","U","N","T">> }

\* re.search(r'\d{4}\s*\d{2}XX', desc)
MaskedCard(desc) ==
    \E i \in 1..Len(desc) :
        /\ \A k \in 0..3 : IsDigit(At(desc, i + k))
        /\ LET j == WsEnd(desc, i + 3) IN
             /\ IsDigit(At(desc, j + 1)) /\ IsDigit(At(desc, j + 2))
             /\ At(desc, j + 3) = "X" /\ At(desc, j + 4) = "X"

\* The fields of one line of words in parse_td_cc: desc, ds, and ar, the
\* text of the leftmost amount word ("" when there is none). 2 * x0 < xds
\* is x0 < xmid, xmid being xds / 2.
CcRow(line, xa, xds) ==
    LET \* sorted(row["amount"], key=lambda w: w['x0'])[0]: the first of the
        \* words with the least x0
        Least(am) ==
            IF am = <<>> THEN <<>>
            ELSE am[CHOOSE i \in 1..Len(am) :
                      /\ \A j \in 1..Len(am) : am[i].x0 <= am[j].x0
                      /\ \A j \in 1..(i - 1) : am[j].x0 > am[i].x0].text
    IN  [desc |-> Strip(Join(Texts(SelectSeq(line, LAMBDA w : w.x0 < xa /\ w.x0 >= xds)))),
         ds   |-> Upper(Concat(Texts(SelectSeq(line,
                        LAMBDA w : w.x0 < xa /\ w.x0 < xds /\ 2 * w.x0 < xds)))),
         ar   |-> Least(SelectSeq(line, LAMBDA w : w.x0 >= xa))]

\* What the loop body does with a line: "stop" (break), "skip" (continue
\* before the line is looked at as a transaction), or "cand", a candidate
CcKind(row) ==
    LET Kind(u) ==
            IF \E k \in CcStop : StartsWith(u, k) THEN "stop"
            ELSE IF (\E k \in CcSkip : StartsWith(u, k)) \/ row.desc = <<>> THEN "skip"
            ELSE IF Strip(u) = ACTIVITY THEN "skip"
            ELSE IF MaskedCard(row.desc) THEN "skip"
            ELSE "cand"
    IN  Kind(Upper(row.desc))

\* A faulty CcIsNew, which does not look at the amount
CcIsNew_dated(row) == MonthDaySearch(row.ds) # <<>>

\* A candidate line starts a new transaction
CcIsNew(row) == MonthDaySearch(row.ds) # <<>> /\ _td_amt(row.ar) > 0

\* The effect of a candidate line on raw, the transactions accumulated
CcStep(raw, row) ==
    LET New(dm, an) ==
            Append(raw, [DateRaw     |-> dm[1] \o ZFill2(dm[2]),
                         Description |-> row.desc,
                         Amount      |-> IF StartsWith(Strip(row.ar), <<"-">>) THEN an ELSE -an])
    IN  IF CcIsNew(row)
        THEN New(MonthDaySearch(row.ds), _td_amt(row.ar))
        ELSE IF row.desc # <<>> /\ raw # <<>>
        THEN [raw EXCEPT ![Len(raw)].Description = @ \o <<" ">> \o row.desc]
        ELSE raw

\* The loop over the lines of one page, until the lines end or one stops it
RECURSIVE CcLines(_, _, _, _)
CcLines(lines, raw, xa, xds) ==
    LET Body(row, k) ==
            IF k = "stop" THEN raw
            ELSE IF k = "skip" THEN CcLines(Tail(lines), raw, xa, xds)
            ELSE CcLines(Tail(lines), CcStep(raw, row), xa, xds)
        Line(row) == Body(row, CcKind(row))
    IN  IF lines = <<>> THEN raw ELSE Line(CcRow(lines[1], xa, xds))

\* The header of a page: [ok, hy, xa, xds]; ok is FALSE when the page has no
\* word that contains AMOUNT and "$"
CcHeader(words) ==
    LET \* h is the header word; ds are the words on its row that name the
        \* description column, cs the words on its row to its left
        Xds(ds, cs) ==
            IF ds # {} THEN words[CHOOSE i \in ds : \A j \in ds : i <= j].x0
            ELSE IF cs # {}
            THEN words[CHOOSE i \in cs : \A j \in cs : words[j].x0 <= words[i].x0].x0
            ELSE CcXds
        Row(h) ==
            [ok  |-> TRUE, hy |-> h.top, xa |-> h.x0,
             xds |-> Xds({i \in 1..Len(words) :
                            /\ Abs(words[i].top - h.top) <= CcHdr
                            /\ \/ Contains(Upper(words[i].text), ACTIVITY)
                               \/ Contains(Upper(words[i].text), DESCRIPTION)},
                         {i \in 1..Len(words) :
                            Abs(words[i].top - h.top) <= CcHdr /\ words[i].x0 < h.x0})]
        First(hs) ==
            IF hs = {} THEN [ok |-> FALSE, hy |-> 0, xa |-> 0, xds |-> 0]
            ELSE Row(words[CHOOSE i \in hs : \A j \in hs : i <= j])
    IN  First({i \in 1..Len(words) :
                 Contains(Upper(words[i].text), AMOUNT) /\ Contains(words[i].text, <<"$">>)})

\* The words of the table of a page: below the header and above ym, the top
\* of the first CONTINUED below the header, else of the first TOTAL or TD,
\* else without a lower end
CcTable(words, hy) ==
    LET Above(below, ym) == SelectSeq(below, LAMBDA w : w.top < ym)
        \* c are the words whose top can be ym
        Cut(below, c) ==
            IF c = {} THEN below
            ELSE Above(below, below[CHOOSE i \in c : \A j \in c : i <= j].top)
        Marks(below, c1, c2) == Cut(below, IF c1 # {} THEN c1 ELSE c2)
        Below(below) ==
            Marks(below, {i \in 1..Len(below) : Upper(below[i].text) = CONTINUED},
                         {i \in 1..Len(below) : Upper(below[i].text) \in {TOTAL, TD}})
    IN  Below(SelectSeq(words, LAMBDA w : w.top > hy + CcHdr))

\* raw after one page
CcPage(page, raw) ==
    LET Table(words, h) ==
            IF ~h.ok THEN raw
            ELSE CcLines(_td_lines(CcTable(words, h.hy), CcHdr), raw, h.xa, h.xds)
        Page(words) == IF words = <<>> THEN raw ELSE Table(words, CcHeader(words))
    IN  Page(_td_up(page, 1))

RECURSIVE CcPages(_, _)
CcPages(pages, raw) ==
    IF pages = <<>> THEN raw ELSE CcPages(Tail(pages), CcPage(pages[1], raw))

\* parse_td_cc(p, sm, sy); ok is FALSE when the word extraction raises
parse_td_cc(doc, sm, sy) ==
    LET Rows(raw) ==
            [i \in 1..Len(raw) |->
                [Date        |-> _td_date(raw[i].DateRaw, sm, sy),
                 Description |-> NormSpace(raw[i].Description),
                 Amount      |-> raw[i].Amount]]
    IN  IF doc.wordsRaises /\ doc.pages # <<>> THEN [ok |-> FALSE, rows |-> <<>>]
        ELSE [ok |-> TRUE, rows |-> Rows(CcPages(doc.pages, <<>>))]

parse_td(fn, doc, now) ==
    LET Parse(my, st) ==
            IF ~st.ok THEN [ok |-> FALSE, rows |-> <<>>]
            ELSE IF st.st = "credit_card" THEN parse_td_cc(doc, my[1], my[2])
            ELSE parse_td_chk(doc, my[1], my[2])
    IN  Parse(_td_my(fn, now), _td_type(doc))

----------------------------------------------------------------------------
(* Inputs: file names, hints, documents                                    *)

MaxBmoLines == 1    \* text lines of a BMO document
MaxTdRows   == 1    \* table rows of a TD document
MaxTicks    == 1    \* times the clock moves on

\* All sequences over S of length at most n
RECURSIVE SeqsUpTo(_, _)
SeqsUpTo(S, n) ==
    IF n = 0 THEN {<<>>}
    ELSE LET T == SeqsUpTo(S, n - 1) IN T \cup {Append(t, x) : t \in T, x \in S}

FN_BMO_DATED == <<"B","M","O","_","C","A","D","_","J","a","n","u","a","r","y"," ","5",","," ","2","0","2","4",".","p","d","f">>
FN_BMO       == <<"B","M","O",".","p","d","f">>
FN_TD_DATED  == <<"T","D","_","C","h","k","_","D","e","c","_","5","_","2","0","2","3",".","p","d","f">>
FN_TD        == <<"T","D"," ","V","i","s","a",".","p","d","f">>
FN_PLAIN     == <<"s","t","a","t","e","m","e","n","t",".","p","d","f">>
FN_PLAIN_TD  == <<"s","c","a","n","_","J","a","n","_","5","_","2","0","2","4",".","p","d","f">>

FileNames == {FN_BMO_DATED, FN_BMO, FN_TD_DATED, FN_TD, FN_PLAIN, FN_PLAIN_TD}

H_TD_CHK == <<"t","d"," ","c","h","k">>
H_OTHER  == <<"s","a","v","i","n","g","s">>

Hints == {None, H_TD_CHK, H_OTHER}

\* Text lines of a BMO statement: a debit, a credit, a line of amount zero,
\* and a line that is no transaction
BmoTextLines == { <<"J","a","n"," ","5"," ","J","a","n"," ","6"," ","S","H","O","P"," ","4","5",".","6","7">>,
                  <<"D","e","c"," ","3","0"," ","D","e","c"," ","3","1"," ","P","A","Y","M","E","N","T"," ","1","2","0",".","0","0"," ","C","R">>,
                  <<"J","a","n"," ","7"," ","J","a","n"," ","8"," ","F","E","E"," ","0",".","0","0">>,
                  <<"T","o","t","a","l"," ","4","5",".","6","7">> }

Word(text, x0, top) == [text |-> text, x0 |-> x0, top |-> top, upright |-> TRUE]

\* The words of a row whose cells are texts, cells[i] at xs[i]; an empty
\* cell has no word
RowWords(cells, xs, top) ==
    LET idx == SelectSeq([i \in 1..Len(cells) |-> i], LAMBDA i : cells[i] # <<>>)
    IN  [k \in 1..Len(idx) |-> Word(cells[idx[k]], xs[idx[k]], top)]

RECURSIVE TableWords(_, _, _)
TableWords(rows, xs, top) ==
    IF rows = <<>> THEN <<>>
    ELSE RowWords(rows[1], xs, top) \o TableWords(Tail(rows), xs, top + 10)

\* A TD checking page: the header row, then rows <<description, withdrawal,
\* deposit, date, balance>>
ChkXs == <<10, 100, 200, 300, 400>>
ChkHeader == << <<"D","e","s","c","r","i","p","t","i","o","n">>, <<"W","i","t","h","d","r","a","w","a","l","s">>, <<"D","e","p","o","s","i","t","s">>, <<"D","a","t","e">>, <<"B","a","l","a","n","c","e">> >>
ChkWords(rows) == RowWords(ChkHeader, ChkXs, 50) \o TableWords(rows, ChkXs, 60)

ChkRows == { << <<"G","R","O","C","E","R","Y">>, <<"5","0",".","0","0">>, <<>>, <<"J","A","N","1","5">>, <<"9","5","0",".","0","0">> >>,
             << <<"P","A","Y","R","O","L","L">>, <<>>, <<"7","5",".","2","5">>, <<"D","E","C","3","1">>, <<"1",",","0","2","5",".","2","5">> >>,
             << <<"N","O","T","E">>, <<"0",".","0","0">>, <<>>, <<"J","A","N","1","6">>, <<"1",",","0","2","5",".","2","5">> >> }

\* A TD credit card page: the header row, then rows <<transaction date,
\* posting date, description, amount>>
CcXs == <<10, 60, 120, 300>>
CcHeaderRow == << <<"T","R","A","N","S","A","C","T","I","O","N">>, <<"P","O","S","T","I","N","G">>, <<"A","C","T","I","V","I","T","Y">>, <<"A","M","O","U","N","T","(","$",")">> >>
CcWords(rows) == RowWords(CcHeaderRow, CcXs, 50) \o TableWords(rows, CcXs, 60)

CcRows == { << <<"J","A","N","1","5">>, <<"J","A","N","1","6">>, <<"A","M","A","Z","O","N">>, <<"$","4","5",".","6","7">> >>,
            << <<>>, <<>>, <<"M","A","R","K","E","T","P","L","A","C","E">>, <<>> >>,
            << <<"D","E","C","3","1">>, <<"J","A","N","2">>, <<"P","A","Y","M","E","N","T">>, <<"-","$","2","0",".","0","0">> >> }

Doc(text, words, tr, wr) ==
    [pages |-> << [text |-> text, words |-> words] >>, textRaises |-> tr, wordsRaises |-> wr]

Docs ==
    LET contents == {<<t, <<>>>> : t \in SeqsUpTo(BmoTextLines, MaxBmoLines)}
                    \cup {<<<<>>, ChkWords(r)>> : r \in SeqsUpTo(ChkRows, MaxTdRows)}
                    \cup {<<<<>>, CcWords(r)>> : r \in SeqsUpTo(CcRows, MaxTdRows)}
    IN  {Doc(c[1], c[2], tr, wr) : c \in contents, tr \in BOOLEAN, wr \in BOOLEAN}

\* The clock: November 2023, and a month later each time it moves on
Clock(t) == [month |-> ((10 + t) % 12) + 1, year |-> 2023 + ((10 + t) \div 12)]

----------------------------------------------------------------------------
(* main()                                                                  *)

\* The variables of the other specifications, at rest
UnitIdle == uIn = [f |-> "none", args |-> <<>>] /\ uOut = [done |-> FALSE, val |-> <<>>]
CcIdle   == ccTodo = <<>> /\ ccRaw = <<>> /\ ccStopped = FALSE

\* The state of an invocation that has not started
Fresh ==
    /\ pc = "start"
    /\ detected = [ok |-> TRUE, account |-> None]
    /\ account = None
    /\ transactions = <<>>
    /\ calls = <<>>
    /\ reads = <<>>
    /\ out = <<>>
    /\ exit = -1

\* No file contents: what stands for the document when there is no file
NoDoc == Doc(<<>>, <<>>, FALSE, FALSE)

\* Without a path argument there is no file name; a file that does not
\* exist has no contents
Init ==
    /\ argc \in {1, 2, 3}
    /\ exists \in (IF argc > 1 THEN BOOLEAN ELSE {FALSE})
    /\ fname \in (IF argc > 1 THEN FileNames ELSE {<<>>})
    /\ hint \in (IF argc > 2 THEN Hints \ {None} ELSE {None})
    /\ pdf \in (IF exists THEN Docs ELSE {NoDoc})
    /\ clock = Clock(0)
    /\ ticks = 0
    /\ run = 1
    /\ prev = [out |-> <<>>, reads |-> <<>>]
    /\ Fresh
    /\ UnitIdle /\ CcIdle

inputs == <<argc, exists, fname, hint, pdf, run, prev>>
rest   == <<unitVars, ccVars>>

\* The last entry of the log of parser calls
Last(log) == log[Len(log)]

\* The log entry of a call of parser p that returned rows (ok) or raised
Logged(p, r) == [parser |-> p, ok |-> r.ok, rows |-> r.rows]

\* What a call of parse_bmo leaves in the log; it reads the clock when the
\* file name carries no statement date
BmoCall == Logged("bmo", parse_bmo(fname, pdf, clock))
BmoReads == IF BmoDateSearch(fname) = <<>> THEN <<clock>> ELSE <<>>

\* The same for parse_td, whose _td_my runs before anything can raise
TdCall == Logged("td", parse_td(fname, pdf, clock))
TdReads == IF _td_my(fname, [month |-> 0, year |-> 0]) = <<0, 0>> THEN <<clock>> ELSE <<>>

\* len(sys.argv) < 2: the usage message, exit status 1
Usage ==
    /\ pc = "start" /\ argc < 2
    /\ out' = Append(out, [error |-> "usage"])
    /\ exit' = 1
    /\ pc' = "done"
    /\ UNCHANGED <<inputs, clock, ticks, detected, account, transactions, calls, reads, rest>>

\* not p.exists(): the message is printed and sys.exit(1) raises SystemExit,
\* which "except Exception" does not catch
NotFound ==
    /\ pc = "start" /\ argc >= 2 /\ ~exists
    /\ out' = Append(out, [error |-> "File not found"])
    /\ exit' = 1
    /\ pc' = "done"
    /\ UNCHANGED <<inputs, clock, ticks, detected, account, transactions, calls, reads, rest>>

\* account = detect_account(pdf_path, hint)
Detect ==
    /\ pc = "start" /\ argc >= 2 /\ exists
    /\ detected' = detect_account(fname, hint)
    /\ account' = detected'.account
    /\ pc' = IF detected'.ok THEN "select" ELSE "failed"
    /\ UNCHANGED <<inputs, clock, ticks, transactions, calls, reads, out, exit, rest>>

\* account and "BMO" in account, account and "TD" in account
IsBmo(a) == a # None /\ a # <<>> /\ Contains(a, P_BMO)
IsTd(a)  == a # None /\ a # <<>> /\ Contains(a, P_TD)

\* if account and "BMO" in account: transactions = parse_bmo(p)
OnlyBmo ==
    /\ pc = "select" /\ IsBmo(account)
    /\ calls' = Append(calls, BmoCall)
    /\ reads' = reads \o BmoReads
    /\ transactions' = Last(calls').rows
    /\ pc' = IF Last(calls').ok THEN "emit" ELSE "failed"
    /\ UNCHANGED <<inputs, clock, ticks, detected, account, out, exit, rest>>

\* elif account and "TD" in account: transactions = parse_td(p)
OnlyTd ==
    /\ pc = "select" /\ ~IsBmo(account) /\ IsTd(account)
    /\ calls' = Append(calls, TdCall)
    /\ reads' = reads \o TdReads
    /\ transactions' = Last(calls').rows
    /\ pc' = IF Last(calls').ok THEN "emit" ELSE "failed"
    /\ UNCHANGED <<inputs, clock, ticks, detected, account, out, exit, rest>>

\* A faulty AfterBmo, without the inner try: a call that raises is fatal
AfterBmo_fatal(c) ==
    IF ~c.ok THEN "failed"
    ELSE IF c.rows = <<>> THEN "fallback"
    ELSE "emit"

\* Where main() goes after parse_bmo in the else branch: c is the call's log
\* entry. A call that raises is caught by the inner "except Exception".
AfterBmo(c) ==
    IF ~c.ok THEN "retry"
    ELSE IF c.rows = <<>> THEN "fallback"
    ELSE "emit"

\* else: try: transactions = parse_bmo(p), and what follows when it returns
\* rows (elif account is None: account = "BMO CAD Credit Card")
TryBmo ==
    /\ pc = "select" /\ ~IsBmo(account) /\ ~IsTd(account)
    /\ calls' = Append(calls, BmoCall)
    /\ reads' = reads \o BmoReads
    /\ transactions' = Last(calls').rows
    /\ account' = IF Last(calls').ok /\ Last(calls').rows # <<>> /\ account = None
                  THEN BMO_CAD ELSE account
    /\ pc' = AfterBmo(Last(calls'))
    /\ UNCHANGED <<inputs, clock, ticks, detected, out, exit, rest>>

\* if not transactions: transactions = parse_td(p), inside the try; when it
\* raises, the inner "except Exception" runs
FallbackTd ==
    /\ pc = "fallback"
    /\ calls' = Append(calls, TdCall)
    /\ reads' = reads \o TdReads
    /\ transactions' = IF Last(calls').ok THEN Last(calls').rows ELSE transactions
    /\ account' = IF Last(calls').ok /\ Last(calls').rows # <<>> /\ account = None
                  THEN TD_CHK ELSE account
    /\ pc' = IF Last(calls').ok THEN "emit" ELSE "retry"
    /\ UNCHANGED <<inputs, clock, ticks, detected, out, exit, rest>>

\* except Exception: transactions = parse_td(p)
RetryTd ==
    /\ pc = "retry"
    /\ calls' = Append(calls, TdCall)
    /\ reads' = reads \o TdReads
    /\ transactions' = IF Last(calls').ok THEN Last(calls').rows ELSE transactions
    /\ pc' = IF Last(calls').ok THEN "emit" ELSE "failed"
    /\ UNCHANGED <<inputs, clock, ticks, detected, account, out, exit, rest>>

\* print(json.dumps({...})) at the end of the try, and the return
EmitResult ==
    /\ pc = "emit"
    /\ out' = Append(out, [account |-> account, filename |-> fname, transactions |-> transactions,
                           count |-> Len(transactions), error |-> "null"])
    /\ exit' = 0
    /\ pc' = "done"
    /\ UNCHANGED <<inputs, clock, ticks, detected, account, transactions, calls, reads, rest>>

\* except Exception as e: the error result, sys.exit(1)
EmitError ==
    /\ pc = "failed"
    /\ out' = Append(out, [account |-> None, filename |-> fname, transactions |-> <<>>,
                           count |-> 0, error |-> "exception"])
    /\ exit' = 1
    /\ pc' = "done"
    /\ UNCHANGED <<inputs, clock, ticks, detected, account, transactions, calls, reads, rest>>

\* The caller runs the program again on the same path, hint and contents
Again ==
    /\ pc = "done" /\ run = 1
    /\ run' = 2
    /\ prev' = [out |-> out, reads |-> reads]
    /\ pc' = "start"
    /\ detected' = [ok |-> TRUE, account |-> None]
    /\ account' = None
    /\ transactions' = <<>>
    /\ calls' = <<>>
    /\ reads' = <<>>
    /\ out' = <<>>
    /\ exit' = -1
    /\ UNCHANGED <<argc, exists, fname, hint, pdf, clock, ticks, rest>>

\* Time passes: the next month begins
Tick ==
    /\ ticks < MaxTicks
    /\ ticks' = ticks + 1
    /\ clock' = Clock(ticks + 1)
    /\ UNCHANGED <<inputs, pc, detected, account, transactions, calls, reads, out, exit, rest>>

Next ==
    \/ Usage \/ NotFound \/ Detect
    \/ OnlyBmo \/ OnlyTd \/ TryBmo \/ FallbackTd \/ RetryTd
    \/ EmitResult \/ EmitError
    \/ Again \/ Tick

Spec == Init /\ [][Next]_vars

----------------------------------------------------------------------------
(* One function applied to arguments                                       *)

\* The variables of main(), at rest
MainIdle ==
    /\ argc = 1 /\ exists = FALSE /\ fname = <<>> /\ hint = None /\ pdf = NoDoc
    /\ clock = Clock(0) /\ ticks = 0 /\ run = 1
    /\ prev = [out |-> <<>>, reads |-> <<>>]
    /\ pc = "idle"
    /\ detected = [ok |-> TRUE, account |-> None]
    /\ account = None /\ transactions = <<>> /\ calls = <<>> /\ reads = <<>>
    /\ out = <<>> /\ exit = -1

\* Hints: none, the empty one, "td checking" alone, in upper case, inside
\* other text, after another keyword, and hints without it
UnitHints == { None, <<>>, <<"t","d"," ","c","h","e","c","k","i","n","g">>, <<"T","D"," ","C","h","e","c","k","i","n","g">>, <<"m","y"," ","T","D"," ","C","H","E","C","K","I","N","G"," ","a","c","c","t">>,
               <<"b","m","o"," ","c","a","d"," ","t","d"," ","c","h","e","c","k","i","n","g">>, <<"t","d"," ","c","h","k">>, <<"s","a","v","i","n","g","s">> }

\* Numerals as a statement prints them, with the value each stands for in
\* cents; NoCell is an empty table cell
Numerals == { [text |-> <<"5","0",".","0","0">>, cents |-> 5000],
              [text |-> <<"0",".","0","0">>, cents |-> 0],
              [text |-> <<"1",",","2","3","4",".","5","6">>, cents |-> 123456] }
NoCell == [text |-> <<>>, cents |-> 0]

\* What follows the numeral of a BMO line
CrSuffixes == { <<>>, <<"C","R">>, <<" ","C","R">>, <<"c","r">> }

\* A BMO text line with the numeral num, a minus sign before it when minus,
\* and suffix after it
BmoLine(num, minus, suffix) ==
    <<"J","a","n"," ","5"," ","J","a","n"," ","6"," ","S","H","O","P"," ">> \o (IF minus THEN <<"-">> ELSE <<>>) \o num.text \o suffix

\* Month/day tokens: the days of each month in a leap year
DaysInLeap == <<31, 29, 31, 30, 31, 30, 31, 31, 30, 31, 30, 31>>
TokenDays  == {1, 29, 31}
Years      == {2023, 2024}

\* "Feb 29", the form of a BMO statement, and "FEB29", the form parse_td_chk
\* and parse_td_cc hand to _td_date
BmoToken(mo, d) ==
    << MonthAbbr[mo][1], ToLower(MonthAbbr[mo][2]), ToLower(MonthAbbr[mo][3]), " " >> \o FmtInt(d)
TdToken(mo, d) == MonthAbbr[mo] \o Fmt02(d)

\* A checking page with the header row and one row below it
ChkDescs == { <<"G","R","O","C","E","R","Y">>, <<"T","O","T","A","L">> }
ChkDates == { <<"J","A","N","1","5">>, <<"D","E","C","3","1">>, <<>> }
ChkDoc(desc, w, d, date) ==
    Doc(<<>>, ChkWords(<< <<desc, w.text, d.text, date, <<"9","5","0",".","0","0">>>> >>), FALSE, FALSE)

UnitInputs ==
    {[f |-> "detect_account", args |-> <<fn, h>>] : fn \in FileNames, h \in UnitHints}
    \cup {[f |-> "parse_bmo", args |-> <<n, m, x>>] :
            n \in Numerals, m \in BOOLEAN, x \in CrSuffixes}
    \cup {[f |-> g, args |-> <<t[1], t[2], sm, sy>>] :
            g \in {"_bmo_date", "_td_date"},
            t \in {u \in (1..12) \X TokenDays : u[2] <= DaysInLeap[u[1]]},
            sm \in 1..12, sy \in Years}
    \cup {[f |-> "parse_td_chk", args |-> <<c, w, d, t, sm, sy>>] :
            c \in ChkDescs, w \in Numerals \cup {NoCell}, d \in Numerals \cup {NoCell},
            t \in ChkDates, sm \in {1, 12}, sy \in Years}

InitUnit ==
    /\ uIn \in UnitInputs
    /\ uOut = [done |-> FALSE, val |-> <<>>]
    /\ MainIdle /\ CcIdle

Return(f, v) ==
    /\ uIn.f = f /\ ~uOut.done
    /\ uOut' = [done |-> TRUE, val |-> v]
    /\ UNCHANGED <<uIn, mainVars, ccVars>>

ApplyDetect  == uIn.f = "detect_account" /\ Return("detect_account", detect_account(uIn.args[1], uIn.args[2]))
ApplyBmo     == uIn.f = "parse_bmo"
                /\ Return("parse_bmo",
                          parse_bmo(FN_BMO_DATED,
                                    Doc(<<BmoLine(uIn.args[1], uIn.args[2], uIn.args[3])>>, <<>>, FALSE, FALSE),
                                    Clock(0)))
ApplyBmoDate == uIn.f = "_bmo_date"
                /\ Return("_bmo_date", _bmo_date(BmoToken(uIn.args[1], uIn.args[2]), uIn.args[3], uIn.args[4]))
ApplyTdDate  == uIn.f = "_td_date"
                /\ Return("_td_date", _td_date(TdToken(uIn.args[1], uIn.args[2]), uIn.args[3], uIn.args[4]))
ApplyTdChk   == uIn.f = "parse_td_chk"
                /\ Return("parse_td_chk",
                          parse_td_chk(ChkDoc(uIn.args[1], uIn.args[2], uIn.args[3], uIn.args[4]),
                                       uIn.args[5], uIn.args[6]))

NextUnit == ApplyDetect \/ ApplyBmo \/ ApplyBmoDate \/ ApplyTdDate \/ ApplyTdChk

SpecUnit == InitUnit /\ [][NextUnit]_vars

----------------------------------------------------------------------------
(* The loop of parse_td_cc over the lines of one table                     *)

MaxCcLines == 3     \* lines of the table

\* The header of the page: xa and xds
CcFixHeader == CcHeader(CcWords(<<>>))

\* The cells of a line: transaction date, posting date, three words of
\* description, amount; with what the line is meant to be: its kind, whether
\* it carries a date and which, its amount in cents, whether that is a
\* credit, and its description
CcLineXs == <<10, 60, 120, 160, 200, 300>>
CcLine(cells, kind, hasDate, date, cents, credit, desc) ==
    [words |-> RowWords(cells, CcLineXs, 60), kind |-> kind, hasDate |-> hasDate,
     date |-> date, cents |-> cents, credit |-> credit, desc |-> desc]

CcFixtures ==
    { CcLine(<<<<"J","A","N","1","5">>, <<"J","A","N","1","6">>, <<"A","M","A","Z","O","N">>, <<>>, <<>>, <<"$","4","5",".","6","7">>>>, "cand", TRUE, <<"J","A","N","1","5">>, 4567, FALSE, <<"A","M","A","Z","O","N">>),
      CcLine(<<<<>>, <<>>, <<"M","A","R","K","E","T">>, <<"P","L","A","C","E">>, <<>>, <<>>>>, "cand", FALSE, <<>>, 0, FALSE, <<"M","A","R","K","E","T"," ","P","L","A","C","E">>),
      CcLine(<<<<"D","E","C","3">>, <<"J","A","N","2">>, <<"P","A","Y","M","E","N","T">>, <<>>, <<>>, <<"-","$","2","0",".","0","0">>>>, "cand", TRUE, <<"D","E","C","0","3">>, 2000, TRUE, <<"P","A","Y","M","E","N","T">>),
      CcLine(<<<<"J","A","N","1","6">>, <<"J","A","N","1","7">>, <<"F","E","E">>, <<>>, <<>>, <<"$","0",".","0","0">>>>, "cand", TRUE, <<"J","A","N","1","6">>, 0, FALSE, <<"F","E","E">>),
      CcLine(<<<<"X","Y","Z">>, <<>>, <<"R","E","F","U","N","D">>, <<>>, <<>>, <<"$","5",".","0","0">>>>, "cand", FALSE, <<>>, 500, FALSE, <<"R","E","F","U","N","D">>),
      CcLine(<<<<>>, <<>>, <<"T","O","T","A","L">>, <<"N","E","W">>, <<"B","A","L","A","N","C","E">>, <<"$","6","5",".","6","7">>>>, "stop", FALSE, <<>>, 6567, FALSE, <<"T","O","T","A","L"," ","N","E","W"," ","B","A","L","A","N","C","E">>),
      CcLine(<<<<>>, <<>>, <<"N","E","T">>, <<"A","M","O","U","N","T">>, <<>>, <<"$","1",".","0","0">>>>, "skip", FALSE, <<>>, 100, FALSE, <<"N","E","T"," ","A","M","O","U","N","T">>),
      CcLine(<<<<"J","A","N","1","8">>, <<>>, <<>>, <<>>, <<>>, <<"$","5",".","0","0">>>>, "skip", TRUE, <<"J","A","N","1","8">>, 500, FALSE, <<>>) }

InitTdCc ==
    /\ ccTodo \in SeqsUpTo(CcFixtures, MaxCcLines)
    /\ ccRaw = <<>>
    /\ ccStopped = FALSE
    /\ MainIdle /\ UnitIdle

\* row, as the loop body builds it from the words of the next line
CcNextRow == CcRow(Head(ccTodo).words, CcFixHeader.xa, CcFixHeader.xds)

\* if any(desc.upper().startswith(k) for k in STOP): break
CcBreak ==
    /\ ccTodo # <<>> /\ ~ccStopped
    /\ CcKind(CcNextRow) = "stop"
    /\ ccStopped' = TRUE
    /\ UNCHANGED <<ccTodo, ccRaw, mainVars, unitVars>>

\* the three "continue" of the loop body
CcContinue ==
    /\ ccTodo # <<>> /\ ~ccStopped
    /\ CcKind(CcNextRow) = "skip"
    /\ ccTodo' = Tail(ccTodo)
    /\ UNCHANGED <<ccRaw, ccStopped, mainVars, unitVars>>

\* the rest of the loop body: a new transaction, or a continuation
CcCandidate ==
    /\ ccTodo # <<>> /\ ~ccStopped
    /\ CcKind(CcNextRow) = "cand"
    /\ ccRaw' = CcStep(ccRaw, CcNextRow)
    /\ ccTodo' = Tail(ccTodo)
    /\ UNCHANGED <<ccStopped, mainVars, unitVars>>

NextTdCc == CcBreak \/ CcContinue \/ CcCandidate

SpecTdCc == InitTdCc /\ [][NextTdCc]_vars

----------------------------------------------------------------------------
(* Properties                                                              *)

\* The results printed that carry a transaction list
Results == {i \in 1..Len(out) : "transactions" \in DOMAIN out[i]}

\* The detector has run and returned None
Unresolved ==
    /\ argc >= 2 /\ exists /\ pc # "start"
    /\ detected.ok /\ detected.account = None

\* The transaction list of what an invocation printed, empty when it
\* printed none
Tx(o) == IF o # <<>> /\ "transactions" \in DOMAIN o[1] THEN o[1].transactions ELSE <<>>

\* C1: every transaction of every result emitted has an amount different
\* from zero, and count is the number of transactions.
C1_NonZeroAmounts ==
    \A i \in Results :
        /\ out[i].count = Len(out[i].transactions)
        /\ \A j \in 1..Len(out[i].transactions) : out[i].transactions[j].Amount # 0

\* C2: when the detector returns None, parse_bmo is called first and
\* parse_td only after parse_bmo returned no transaction or raised; rows from
\* parse_bmo are returned under "BMO CAD Credit Card"; rows from parse_td
\* after an empty parse_bmo are returned under "TD CAD Checking"; an error
\* result is printed only when parse_td raised too.
C2_BmoFirstThenTd ==
    Unresolved =>
        /\ pc # "select" => calls # <<>> /\ calls[1].parser = "bmo"
        /\ \A i \in 2..Len(calls) :
              calls[i].parser = "td" /\ (~calls[1].ok \/ calls[1].rows = <<>>)
        /\ pc = "done" =>
              /\ Len(out) = 1
              /\ (calls[1].ok /\ calls[1].rows # <<>>) =>
                    /\ out[1].error = "null"
                    /\ out[1].account = BMO_CAD
                    /\ out[1].transactions = calls[1].rows
              /\ (calls[1].ok /\ calls[1].rows = <<>> /\ Len(calls) >= 2
                  /\ calls[2].ok /\ calls[2].rows # <<>>) =>
                    /\ out[1].error = "null"
                    /\ out[1].account = TD_CHK
                    /\ out[1].transactions = calls[2].rows
              /\ out[1].error # "null" => Len(calls) >= 2 /\ ~Last(calls).ok

\* C2 happens: the detector returned None, parse_bmo found nothing, parse_td
\* found rows, and they were printed under "TD CAD Checking".
C2_Witness ==
    /\ Unresolved /\ pc = "done"
    /\ Len(calls) = 2 /\ calls[1].ok /\ calls[1].rows = <<>>
    /\ calls[2].ok /\ calls[2].rows # <<>>
    /\ out[1].account = TD_CHK /\ out[1].transactions = calls[2].rows

\* C3: when the path names no file, no parser is called, the exit status is
\* not zero, and the result printed has a non-null error, an empty
\* transaction list and count 0.
C3_MissingFile ==
    (pc = "done" /\ argc >= 2 /\ ~exists) =>
        /\ calls = <<>>
        /\ exit # 0
        /\ Len(out) = 1
        /\ {"error", "transactions", "count"} \subseteq DOMAIN out[1]
        /\ out[1].error # "null"
        /\ out[1].transactions = <<>>
        /\ out[1].count = 0

\* C4 as stated: for every file name, a hint that contains "td checking" in
\* any letter case, whatever else it contains, is resolved to "TD CAD
\* Checking".
C4_AnyHintWithTdChecking ==
    (uIn.f = "detect_account" /\ uOut.done /\ Contains(Lower(uIn.args[2]), <<"t","d"," ","c","h","e","c","k","i","n","g">>)) =>
        uOut.val.ok /\ uOut.val.account = TD_CHK

\* C4 amended: for every file name, a hint that contains "td checking" in
\* any letter case and none of the keywords before it in KEYWORD_MAP ("bmo
\* cad", "bmo usd", "bmo us", "td cc", "td credit") is resolved to "TD CAD
\* Checking".
C4_TdCheckingFirstKeyword ==
    (/\ uIn.f = "detect_account" /\ uOut.done
     /\ Contains(Lower(uIn.args[2]), <<"t","d"," ","c","h","e","c","k","i","n","g">>)
     /\ \A k \in {<<"b","m","o"," ","c","a","d">>, <<"b","m","o"," ","u","s","d">>, <<"b","m","o"," ","u","s">>, <<"t","d"," ","c","c">>, <<"t","d"," ","c","r","e","d","i","t">>} :
            ~Contains(Lower(uIn.args[2]), k)) =>
        uOut.val.ok /\ uOut.val.account = TD_CHK

\* C4 happens: a hint with "td checking" in upper case inside other text,
\* for the file name of a BMO statement, is resolved to "TD CAD Checking".
C4_Witness ==
    /\ uIn.f = "detect_account" /\ uOut.done
    /\ uIn.args = <<FN_BMO_DATED, <<"m","y"," ","T","D"," ","C","H","E","C","K","I","N","G"," ","a","c","c","t">>>>
    /\ uOut.val.account = TD_CHK

\* C5: a line that matches _BMO_TRANS yields one transaction, whose amount
\* is positive when "CR" follows the numeral and negative otherwise, a
\* leading minus sign included (numerals other than zero).
C5_NegativeUnlessCr ==
    (uIn.f = "parse_bmo" /\ uOut.done /\ uIn.args[1].cents # 0) =>
        /\ uOut.val.ok /\ Len(uOut.val.rows) = 1
        /\ IF uIn.args[3] = <<>> THEN uOut.val.rows[1].Amount < 0
                                 ELSE uOut.val.rows[1].Amount > 0

\* The year the roll-over rule gives a token of month mo under the anchor
\* month sm and year sy
RolledYear(mo, sm, sy) ==
    IF mo = 12 /\ sm = 1 THEN sy - 1
    ELSE IF mo = 1 /\ sm = 12 THEN sy + 1
    ELSE sy

\* C6: for every valid month/day token, _bmo_date and _td_date return the
\* date with the month and day of the token and the year sy - 1 for a
\* December token under a January anchor, sy + 1 for a January token under a
\* December anchor, and sy otherwise.
C6_YearRollover ==
    (uIn.f \in {"_bmo_date", "_td_date"} /\ uOut.done) =>
        uOut.val = FmtInt(RolledYear(uIn.args[1], uIn.args[3], uIn.args[4]))
                   \o <<"-">> \o Fmt02(uIn.args[1]) \o <<"-">> \o Fmt02(uIn.args[2])

\* What a step of the loop that has taken the line l from raw to raw2 must
\* have done
C7_Line(l, raw, raw2) ==
    LET n   == Len(raw)
        new == l.kind = "cand" /\ l.hasDate /\ l.cents > 0
    IN  /\ (Len(raw2) = n + 1) <=> new
        /\ new => raw2 = Append(raw, [DateRaw |-> l.date, Description |-> l.desc,
                                      Amount |-> IF l.credit THEN l.cents ELSE -l.cents])
        /\ (l.kind = "cand" /\ ~new /\ l.desc # <<>> /\ n > 0) =>
              /\ Len(raw2) = n
              /\ \A i \in 1..(n - 1) : raw2[i] = raw[i]
              /\ raw2[n].DateRaw = raw[n].DateRaw
              /\ raw2[n].Amount = raw[n].Amount
              /\ raw2[n].Description = raw[n].Description \o <<" ">> \o l.desc
        /\ (l.kind = "cand" /\ ~new /\ n = 0) => raw2 = <<>>
        /\ l.kind # "cand" => raw2 = raw

\* C7: in the loop of parse_td_cc a candidate line appends a transaction
\* exactly when it carries a month+day date and an amount greater than zero;
\* any other candidate line with a description is appended, after a blank,
\* to the description of the last transaction and changes nothing else, or
\* is dropped when there is no transaction yet; stop and skip lines change
\* nothing, and a stop line ends the loop.
C7_NewOrContinuation ==
    [][ /\ ccTodo' # ccTodo =>
              /\ Head(ccTodo).kind # "stop"
              /\ ccTodo' = Tail(ccTodo)
              /\ C7_Line(Head(ccTodo), ccRaw, ccRaw')
        /\ ccTodo' = ccTodo => ccRaw' = ccRaw
        /\ ccStopped' # ccStopped => ccTodo # <<>> /\ Head(ccTodo).kind = "stop" /\ ccStopped'
      ]_vars

\* C7 happens: a transaction line, then a line without date and amount whose
\* text has been appended to the description of that transaction.
C7_Witness ==
    /\ ccRaw = << [DateRaw |-> <<"J","A","N","1","5">>, Description |-> <<"A","M","A","Z","O","N"," ","M","A","R","K","E","T"," ","P","L","A","C","E">>, Amount |-> -4567] >>
    /\ Len(ccTodo) = 1

\* The rows a checking line must give whose withdrawal and deposit cells are
\* w and d: their amounts
C8_Amounts(w, d) ==
    IF w.text # <<>> THEN (IF w.cents = 0 THEN <<>> ELSE <<-w.cents>>)
    ELSE IF d.text # <<>> THEN (IF d.cents = 0 THEN <<>> ELSE <<d.cents>>)
    ELSE <<>>

\* C8: in parse_td_chk a row with a description that is not skipped and a
\* date gives the negative of its withdrawal when it has one, else its
\* deposit when it has one, and no transaction when it has neither or the
\* amount is zero; a withdrawal of 50.00 without deposit dated JAN15 gives
\* -50.00 on January 15 of the year the roll-over rule gives.
C8_SignedAmount ==
    (uIn.f = "parse_td_chk" /\ uOut.done /\ uIn.args[1] = <<"G","R","O","C","E","R","Y">> /\ uIn.args[4] # <<>>) =>
        /\ uOut.val.ok
        /\ [i \in 1..Len(uOut.val.rows) |-> uOut.val.rows[i].Amount]
             = C8_Amounts(uIn.args[2], uIn.args[3])
        /\ (uIn.args[2].text = <<"5","0",".","0","0">> /\ uIn.args[3] = NoCell /\ uIn.args[4] = <<"J","A","N","1","5">>) =>
              /\ uOut.val.rows[1].Amount = -5000
              /\ uOut.val.rows[1].Date =
                    FmtInt(RolledYear(1, uIn.args[5], uIn.args[6])) \o <<"-","0","1","-","1","5">>

\* C8 happens: the row with withdrawal 50.00, no deposit and date JAN15
\* under the anchor January 2024 has given -50.00 on 2024-01-15.
C8_Witness ==
    /\ uIn.f = "parse_td_chk" /\ uOut.done
    /\ uIn.args = <<<<"G","R","O","C","E","R","Y">>, [text |-> <<"5","0",".","0","0">>, cents |-> 5000], NoCell, <<"J","A","N","1","5">>, 1, 2024>>
    /\ Len(uOut.val.rows) = 1
    /\ uOut.val.rows[1].Amount = -5000
    /\ uOut.val.rows[1].Date = <<"2","0","2","4","-","0","1","-","1","5">>

\* C9 as stated: the second invocation on the same path, hint and contents
\* prints the transaction list the first one printed.
C9_SameTransactions ==
    (run = 2 /\ pc = "done") => Tx(out) = Tx(prev.out)

\* C9 amended: the second invocation on the same path, hint and contents
\* prints the transaction list the first one printed whenever
\* datetime.now() returned to it the months and years it returned to the
\* first (as when no parser called reads the clock, the file name carrying
\* the statement date).
C9_SameGivenSameClock ==
    (run = 2 /\ pc = "done" /\ reads = prev.reads) => Tx(out) = Tx(prev.out)

\* C9 happens: the clock has moved on, both invocations have read it and
\* got the same, and both have printed the same transactions.
C9_Witness ==
    /\ run = 2 /\ pc = "done" /\ ticks > 0
    /\ reads # <<>> /\ reads = prev.reads
    /\ Tx(out) # <<>> /\ Tx(out) = Tx(prev.out)

\* C10: every result printed with a null error and at least one transaction
\* names an account.
C10_AccountNamed ==
    \A i \in Results :
        (out[i].error = "null" /\ out[i].transactions # <<>>) => out[i].account # None

====
